---- MODULE Spec2Model ----
(***************************************************************************)
(* State-machine model of the shielded pool of                             *)
(* skills/_integrations/starknet-privacy/scripts: ConfidentialNote and     *)
(* NoteMerkleTree (notes.py) and ShieldedPool (shielded_pool.py).          *)
(*                                                                         *)
(* SHA-256 is modelled as a free (collision-free) constructor: the digest  *)
(* of the string "a:b" is the tagged tuple <<"h", a, b>>, the digest of    *)
(* "v:s:t" is <<"c", v, s, t>>.  The integer 0 of the digest domain is     *)
(* Zero and Python's None is None.  secrets.randbits is modelled as a      *)
(* stream that never repeats a value (rnd counts the notes created).       *)
(* The model follows the bodies of the methods; the exception classes of   *)
(* shielded_pool.py are represented by their names only.                   *)
(***************************************************************************)
EXTENDS Integers, Sequences, FiniteSets, TLC

VARIABLES notes, nullifiers, merkle_tree, rnd, result,
          deposited, withdrawn, spent_ok, respent, threads, inputs

vars == <<notes, nullifiers, merkle_tree, rnd, result,
          deposited, withdrawn, spent_ok, respent, threads, inputs>>

pool == <<notes, nullifiers, merkle_tree>>

(***************************************************************************)
(* Bounds                                                                  *)
(***************************************************************************)
merkle_depth == 2
MaxNotes == 5

(***************************************************************************)
(* Inputs the callers draw from                                            *)
(***************************************************************************)
Addresses == {"bob"}
RecipientSecretBase == 50
RandSecretBase == 100
UserSecrets == {0, 1}
\* The callers of one run draw their arguments from one of these families:
\* deposits are the (amount, owner_secret) pairs passed to deposit, amounts
\* the amounts passed to create_transfer.
InputProfiles ==
    { [deposits |-> {<<0, 1>>, <<100, 1>>}, amounts |-> {40, 300}],
      [deposits |-> {<<100, 0>>}, amounts |-> {40}],
      [deposits |-> {<<100, 1>>}, amounts |-> {-40, 0, 40}] }

None == <<"none">>
Zero == <<"int", 0>>

RECURSIVE Pow2(_)
Pow2(n) == IF n = 0 THEN 1 ELSE 2 * Pow2(n - 1)

\* int(hashlib.sha256(f"{a}:{b}".encode()).hexdigest(), 16) % (2**251)
sha256_pair(a, b) == <<"h", a, b>>

(***************************************************************************)
(* ConfidentialNote                                                        *)
(***************************************************************************)
\* data = f"{self.value}:{self.secret}:{self.salt}"
compute_commitment(value, secret, salt) == <<"c", value, secret, salt>>

\* data = f"{self.commitment}:{self.nullifier_salt}"
compute_nullifier(commitment, nullifier_salt) == <<"n", commitment, nullifier_salt>>

\* secrets.randbits(...) : the r-th note draws values never drawn before
randbits_secret(r) == RandSecretBase + r
randbits_salt(r) == r

\* cls(value, secret, salt, nullifier_salt) followed by _compute_commitment()
\* and _compute_nullifier()
ConfidentialNote(value, secret, salt, nullifier_salt) ==
    LET c == compute_commitment(value, secret, salt)
    IN  [value |-> value, secret |-> secret, salt |-> salt,
         nullifier_salt |-> nullifier_salt, commitment |-> c,
         nullifier |-> compute_nullifier(c, nullifier_salt)]

\* ConfidentialNote.create(value, secret): no check of value; a falsy
\* secret (None or 0) is replaced by a random one
create(value, secret, r) ==
    LET sec == IF secret = 0 THEN randbits_secret(r) ELSE secret
        salt == randbits_salt(r)
        nsalt == randbits_salt(r)
    IN  ConfidentialNote(value, sec, salt, nsalt)

(***************************************************************************)
(* NoteMerkleTree: leaves[0 .. 2^depth - 1], tree[0 .. 2^(depth+1) - 2]    *)
(* (the heap array _tree, root at 0, children of p at 2p+1 and 2p+2)       *)
(***************************************************************************)
NoteMerkleTree(depth) ==
    [depth |-> depth,
     leaves |-> [i \in 0 .. Pow2(depth) - 1 |-> None],
     next_index |-> 0,
     tree |-> [i \in 0 .. Pow2(depth + 1) - 2 |-> None]]

\* one iteration of the "Compute parents" loop of insert
parent_value(left, right) ==
    IF left = None /\ right = None THEN None
    ELSE IF left = None THEN right
    ELSE IF right = None THEN left
    ELSE sha256_pair(left, right)

RECURSIVE compute_parents(_, _, _)
compute_parents(t, pos, n) ==
    IF n = 0 THEN t
    ELSE LET p == (pos - 1) \div 2
             t2 == [t EXCEPT ![p] = parent_value(t[2 * p + 1], t[2 * p + 2])]
         IN  compute_parents(t2, p, n - 1)

\* faulty variant of advance: the index stays where it is
advance_not(index) == index

\* self.next_index += 1
advance(index) == index + 1

\* NoteMerkleTree.insert: [ok, mt, index]; ok = FALSE is ValueError("Merkle tree is full")
insert(mt, commitment) ==
    IF mt.next_index >= Pow2(mt.depth)
    THEN [ok |-> FALSE, mt |-> mt, index |-> -1]
    ELSE LET index == mt.next_index
             pos == index + Pow2(mt.depth) - 1
             t1 == [mt.tree EXCEPT ![pos] = commitment]
         IN  [ok |-> TRUE,
              mt |-> [mt EXCEPT !.leaves[index] = commitment,
                                !.tree = compute_parents(t1, pos, mt.depth),
                                !.next_index = advance(index)],
              index |-> index]

\* Python's "x or 0"
or_zero(x) == IF x = None \/ x = Zero THEN Zero ELSE x

\* NoteMerkleTree.get_root: self._tree[1] or 0
get_root(mt) == or_zero(mt.tree[1])

sibling_position(pos) == IF pos % 2 = 0 THEN pos + 1 ELSE pos - 1

\* the loop of get_proof: the path, or <<"IndexError">> as soon as
\* self._tree[sibling_pos] is out of range
RECURSIVE proof_path(_, _, _, _)
proof_path(mt, pos, n, acc) ==
    IF n = 0 THEN [ok |-> TRUE, path |-> acc]
    ELSE LET sp == sibling_position(pos)
         IN  IF sp \notin DOMAIN mt.tree
             THEN [ok |-> FALSE, path |-> acc]
             ELSE proof_path(mt, (pos - 1) \div 2, n - 1,
                             Append(acc, or_zero(mt.tree[sp])))

\* NoteMerkleTree.get_proof: error is "none", "ValueError" or "IndexError"
get_proof(mt, index) ==
    IF index >= mt.next_index
    THEN [error |-> "ValueError", leaf_index |-> index, root |-> Zero, path |-> <<>>]
    ELSE LET pp == proof_path(mt, index + Pow2(mt.depth) - 1, mt.depth, <<>>)
         IN  IF ~pp.ok
             THEN [error |-> "IndexError", leaf_index |-> index, root |-> Zero, path |-> <<>>]
             ELSE [error |-> "none", leaf_index |-> index,
                   root |-> get_root(mt), path |-> pp.path]

RECURSIVE fold_path(_, _)
fold_path(current, path) ==
    IF path = <<>> THEN current
    ELSE fold_path(sha256_pair(current, Head(path)), Tail(path))

\* NoteMerkleTree.verify_proof
verify_proof(commitment, proof) == fold_path(commitment, proof.path) = proof.root

\* self.merkle_tree.leaves.index(c): first index holding c, or -1 (ValueError)
leaves_index(mt, c) ==
    LET hits == {i \in DOMAIN mt.leaves : mt.leaves[i] = c}
    IN  IF hits = {} THEN -1
        ELSE CHOOSE i \in hits : \A j \in hits : i <= j

(***************************************************************************)
(* Commitment strings: hex(c) is "0x" followed by the lower-case digits;   *)
(* a string is modelled as <<prefix, digits>>.                             *)
(***************************************************************************)
hex(c) == <<"0x", c>>

\* str.lower()
lower(s) == <<IF s[1] = "0X" THEN "0x" ELSE s[1], s[2]>>
\* str.replace('0x', '')
strip_0x(s) == <<IF s[1] = "0x" THEN "" ELSE s[1], s[2]>>
\* f"0x{from_commitment}"
note_key(s) == <<"0x" \o s[1], s[2]>>

\* from_commitment.lower().replace('0x', '') and then f"0x{...}"
normalize(s) == note_key(strip_0x(lower(s)))

(***************************************************************************)
(* The notes dict: a sequence of [key, note] in insertion order            *)
(***************************************************************************)
has_key(d, k) == \E i \in 1 .. Len(d) : d[i].key = k
key_pos(d, k) == CHOOSE i \in 1 .. Len(d) : d[i].key = k
dict_get(d, k) == d[key_pos(d, k)].note
\* d[k] = v
dict_set(d, k, v) ==
    IF has_key(d, k)
    THEN [d EXCEPT ![key_pos(d, k)] = [key |-> k, note |-> v]]
    ELSE Append(d, [key |-> k, note |-> v])
\* faulty variant of dict_del: the entry is kept
dict_del_none(d, k) == d

\* del d[k]
dict_del(d, k) ==
    LET p == key_pos(d, k)
    IN  [i \in 1 .. Len(d) - 1 |-> IF i < p THEN d[i] ELSE d[i + 1]]

(***************************************************************************)
(* ShieldedPool operations as functions of the pool state p =              *)
(* [notes, nullifiers, merkle_tree, rnd]; each gives the state after the   *)
(* call and the call's outcome (the returned dict or the raised error).    *)
(***************************************************************************)
ShieldedPool ==
    [notes |-> <<>>, nullifiers |-> {}, merkle_tree |-> NoteMerkleTree(merkle_depth),
     rnd |-> 0]

\* faulty variant of raise: the failing call empties the notes map
raise_clearing(p, op, kind, message) ==
    [p |-> [p EXCEPT !.notes = <<>>],
     out |-> [op |-> op, status |-> "error", error |-> kind, message |-> message]]

\* raise kind(message): the call ends, the pool stays as it is at that point
raise(p, op, kind, message) ==
    [p |-> p, out |-> [op |-> op, status |-> "error", error |-> kind, message |-> message]]

\* hashlib.sha256(to_address.encode()) : one secret per address
recipient_secret(to_address) == RecipientSecretBase

deposit(p, amount, owner_secret) ==
    IF amount <= 0
    THEN raise(p, "deposit", "ValueError", "Amount must be positive")
    ELSE
    LET note == create(amount, owner_secret, p.rnd)
        p1 == [p EXCEPT !.rnd = p.rnd + 1]
        ins == insert(p.merkle_tree, note.commitment)
    IN  IF ~ins.ok
        THEN raise(p1, "deposit", "ValueError", "Merkle tree is full")
        ELSE [p |-> [p1 EXCEPT !.merkle_tree = ins.mt,
                               !.notes = dict_set(p.notes, hex(note.commitment), note)],
              out |-> [op |-> "deposit", status |-> "success", error |-> "none",
                       amount |-> amount, note |-> note,
                       commitment |-> hex(note.commitment),
                       nullifier |-> note.nullifier,
                       merkle_index |-> ins.index,
                       merkle_root |-> get_root(ins.mt)]]

\* faulty variant of set_add: the set is replaced by the new element
set_add_only(s, x) == {x}

\* self.nullifiers.add(x)
set_add(s, x) == s \cup {x}

\* faulty variant of is_spent: the spent check is dropped
is_spent_never(p, note) == FALSE

\* "note.nullifier in self.nullifiers" of create_transfer and withdraw
is_spent(p, note) == note.nullifier \in p.nullifiers

\* faulty variant of secret_matches: the ownership check is dropped
secret_matches_any(note, owner_secret) == TRUE

\* "note.secret != owner_secret" of withdraw, negated
secret_matches(note, owner_secret) == note.secret = owner_secret

\* "note.value < amount" of create_transfer
insufficient(note, amount) == note.value < amount

\* faulty variant of change_amount_of: the amount is not deducted
change_amount_whole(note, amount) == note.value

\* change_amount = note.value - amount
change_amount_of(note, amount) == note.value - amount

\* create_transfer from "Create new note for recipient" on; p2 already
\* holds the published nullifier and the change note, if any
transfer_recipient(p2, note, proof, has_change, change_note, to_address, amount) ==
    LET new_note == create(amount, recipient_secret(to_address), p2.rnd)
        p3 == [p2 EXCEPT !.rnd = p2.rnd + 1]
        ins == insert(p2.merkle_tree, new_note.commitment)
    IN  IF ~ins.ok
        THEN raise(p3, "transfer", "ShieldedPoolError", "Transfer failed: Merkle tree is full")
        ELSE [p |-> [p3 EXCEPT !.merkle_tree = ins.mt,
                               !.notes = dict_set(p2.notes, hex(new_note.commitment), new_note)],
              out |-> [op |-> "transfer", status |-> "success", error |-> "none",
                       from_note |-> note, to_note |-> new_note,
                       change_note |-> change_note,
                       has_change |-> has_change,
                       amount_transferred |-> amount,
                       nullifier_published |-> note.nullifier,
                       merkle_proof |-> proof,
                       to_index |-> ins.index,
                       new_merkle_root |-> get_root(ins.mt)]]

\* faulty variant of needs_change: no change note is ever made
needs_change_never(change_amount) == FALSE

\* "if change_amount > 0" of create_transfer
needs_change(change_amount) == change_amount > 0

\* create_transfer from "Publish nullifier" on
transfer_spend(p, note, proof, to_address, amount, owner_secret) ==
    LET p1 == [p EXCEPT !.nullifiers = set_add(p.nullifiers, note.nullifier)]
        change_amount == change_amount_of(note, amount)
    IN  IF needs_change(change_amount)
        THEN LET change_note == create(change_amount, owner_secret, p1.rnd)
                 p2 == [p1 EXCEPT !.rnd = p1.rnd + 1]
                 ins == insert(p1.merkle_tree, change_note.commitment)
             IN  IF ~ins.ok
                 THEN raise(p2, "transfer", "ShieldedPoolError",
                            "Transfer failed: Merkle tree is full")
                 ELSE transfer_recipient(
                        [p2 EXCEPT !.merkle_tree = ins.mt,
                                   !.notes = dict_set(p1.notes, hex(change_note.commitment),
                                                      change_note)],
                        note, proof, TRUE, change_note, to_address, amount)
        ELSE transfer_recipient(p1, note, proof, FALSE, None, to_address, amount)

create_transfer(p, from_commitment, to_address, amount, owner_secret) ==
    LET key == normalize(from_commitment)
    IN  IF ~has_key(p.notes, key)
        THEN raise(p, "transfer", "NoteNotFoundError", "Note not found")
        ELSE
        LET note == dict_get(p.notes, key)
        IN  IF insufficient(note, amount)
            THEN raise(p, "transfer", "InsufficientBalanceError", "Insufficient balance")
            ELSE IF is_spent(p, note)
            THEN raise(p, "transfer", "NoteAlreadySpentError", "Note already spent")
            ELSE
            LET index == leaves_index(p.merkle_tree, note.commitment)
                proof == get_proof(p.merkle_tree, index)
            IN  IF index < 0 \/ proof.error # "none"
                THEN raise(p, "transfer", "ShieldedPoolError",
                           "Transfer failed: Failed to generate merkle proof")
                ELSE transfer_spend(p, note, proof, to_address, amount, owner_secret)

withdraw(p, commitment, owner_secret, recipient_address) ==
    LET key == normalize(commitment)
    IN  IF ~has_key(p.notes, key)
        THEN raise(p, "withdraw", "NoteNotFoundError", "Note not found")
        ELSE
        LET note == dict_get(p.notes, key)
        IN  IF is_spent(p, note)
            THEN raise(p, "withdraw", "NoteAlreadySpentError", "Note already spent")
            ELSE IF ~secret_matches(note, owner_secret)
            THEN raise(p, "withdraw", "InvalidSecretError", "Invalid secret for note")
            ELSE
            LET index == leaves_index(p.merkle_tree, note.commitment)
                proof == get_proof(p.merkle_tree, index)
            IN  IF index < 0 \/ proof.error # "none"
                THEN raise(p, "withdraw", "ShieldedPoolError",
                           "Withdrawal failed: Failed to generate merkle proof")
                ELSE [p |-> [p EXCEPT !.nullifiers = set_add(p.nullifiers, note.nullifier),
                                      !.notes = dict_del(p.notes, key)],
                      out |-> [op |-> "withdraw", status |-> "success", error |-> "none",
                               amount |-> note.value, from_note |-> note,
                               recipient |-> recipient_address,
                               nullifier_published |-> note.nullifier,
                               merkle_proof |-> proof]]

\* get_balance(secret)['total_balance']
RECURSIVE sum_owned(_, _)
sum_owned(d, secret) ==
    IF d = <<>> THEN 0
    ELSE (IF Head(d).note.secret = secret THEN Head(d).note.value ELSE 0)
         + sum_owned(Tail(d), secret)

get_balance(p, secret) == sum_owned(p.notes, secret)

(***************************************************************************)
(* Persistence and the integrity report                                    *)
(***************************************************************************)
\* int(s, 16): the digits, with or without a 0x / 0X prefix
int16(s) == s[2]

\* a text holding a character that is no hex digit, and the test int(s, 16)
\* makes of a dict key before it converts (ValueError otherwise)
NotHex == <<"text", "note-1">>
is_hex(s) == s[2] # NotHex

\* "hex(x) if x else None"
hex_or_none(x) == IF x = None \/ x = Zero THEN None ELSE hex(x)

\* ConfidentialNote.to_dict
to_dict(note) ==
    [value |-> note.value, secret |-> hex(note.secret), salt |-> hex(note.salt),
     nullifier_salt |-> hex(note.nullifier_salt),
     commitment |-> hex_or_none(note.commitment),
     nullifier |-> hex_or_none(note.nullifier)]

\* ConfidentialNote.from_dict: commitment and nullifier are taken from the
\* document when present, they are not recomputed
from_dict(data) ==
    [value |-> data.value, secret |-> int16(data.secret), salt |-> int16(data.salt),
     nullifier_salt |-> int16(data.nullifier_salt),
     commitment |-> IF data.commitment = None THEN None ELSE int16(data.commitment),
     nullifier |-> IF data.nullifier = None THEN None ELSE int16(data.nullifier)]

\* ShieldedPool.export_state (the name is left out)
export_state(p) ==
    [notes |-> [i \in 1 .. Len(p.notes) |->
                  [key |-> p.notes[i].key, note |-> to_dict(p.notes[i].note)]],
     nullifiers |-> {hex(n) : n \in p.nullifiers},
     merkle_root |-> hex(get_root(p.merkle_tree))]

\* the loop of import_state over state['notes'], from item i on
RECURSIVE import_notes(_, _, _)
import_notes(p, items, i) ==
    IF i > Len(items) THEN [ok |-> TRUE, p |-> p]
    ELSE LET note == from_dict(items[i].note)
             ins == insert(p.merkle_tree, note.commitment)
         IN  IF ~ins.ok THEN [ok |-> FALSE, p |-> p]
             ELSE import_notes([p EXCEPT !.notes = dict_set(p.notes, items[i].key, note),
                                         !.merkle_tree = ins.mt],
                               items, i + 1)

\* ShieldedPool.import_state: a new pool filled from the document; r is
\* the position of the random stream, which the new pool goes on drawing from
import_state(state, r) ==
    LET filled == import_notes([ShieldedPool EXCEPT !.rnd = r], state.notes, 1)
    IN  [ok |-> filled.ok,
         p |-> [filled.p EXCEPT !.nullifiers = {int16(h) : h \in state.nullifiers}]]

\* the issues of verify_integrity, one per note whose commitment field is
\* not the integer its key spells
RECURSIVE commitment_issues(_)
commitment_issues(d) ==
    IF d = <<>> THEN <<>>
    ELSE (IF Head(d).note.commitment # int16(Head(d).key)
          THEN <<<<"Commitment mismatch for note", Head(d).key>>>> ELSE <<>>)
         \o commitment_issues(Tail(d))

\* ShieldedPool.verify_integrity; a set has no duplicates, so the
\* "Duplicate nullifiers found" issue never arises
verify_integrity(p) ==
    LET issues == commitment_issues(p.notes)
    IN  IF \E i \in 1 .. Len(p.notes) : ~is_hex(p.notes[i].key)
        THEN [error |-> "ValueError"]
        ELSE
        [error |-> "none", valid |-> Len(issues) = 0, total_notes |-> Len(p.notes),
         spent_nullifiers |-> Cardinality(p.nullifiers),
         merkle_root |-> hex(get_root(p.merkle_tree)), issues |-> issues]

(***************************************************************************)
(* The sequential state machine: one action per public operation           *)
(***************************************************************************)
Threads == {1, 2}
idle == [pc |-> "idle"]

P == [notes |-> notes, nullifiers |-> nullifiers, merkle_tree |-> merkle_tree,
      rnd |-> rnd]

\* a pool just constructed, no call made yet
Constructed ==
    /\ notes = ShieldedPool.notes
    /\ nullifiers = ShieldedPool.nullifiers
    /\ merkle_tree = ShieldedPool.merkle_tree
    /\ rnd = ShieldedPool.rnd
    /\ result = [op |-> "init", status |-> "success", error |-> "none"]
    /\ deposited = 0
    /\ withdrawn = 0
    /\ spent_ok = {}
    /\ respent = {}
    /\ threads = [t \in Threads |-> idle]

Init == Constructed /\ inputs \in InputProfiles

\* the pool after a call that gave r
commit(r) ==
    /\ notes' = r.p.notes
    /\ nullifiers' = r.p.nullifiers
    /\ merkle_tree' = r.p.merkle_tree
    /\ rnd' = r.p.rnd
    /\ result' = r.out

\* history of the successful spends: the commitments consumed so far, and
\* those consumed more than once
record_spend(r) ==
    IF r.out.status = "success"
    THEN /\ spent_ok' = spent_ok \cup {r.out.from_note.commitment}
         /\ respent' = respent \cup ({r.out.from_note.commitment} \cap spent_ok)
    ELSE UNCHANGED <<spent_ok, respent>>

\* the commitment strings a caller can pass: every commitment ever put in
\* the tree and one that never was, with and without the 0x prefix
UnknownCommitment == compute_commitment(0, 0, 0)
KnownCommitments ==
    {merkle_tree.leaves[i] : i \in 0 .. merkle_tree.next_index - 1}
\* the strings the receipts give out: hex(commitment)
ReceiptStrings == {hex(c) : c \in KnownCommitments \cup {UnknownCommitment}}
\* and other spellings of the first one: upper case, no 0x prefix
CommitmentStrings ==
    ReceiptStrings \cup
    {<<pre, merkle_tree.leaves[i]>> :
        pre \in {"0X", ""}, i \in {j \in {0} : j < merkle_tree.next_index}}

\* the secret stored in the note a commitment string names, if any
stored_secret(s) ==
    {notes[i].note.secret : i \in {j \in 1 .. Len(notes) : notes[j].key = normalize(s)}}

\* the secrets a caller passes along with a commitment string
TransferSecrets(s) == (UserSecrets \ {0}) \cup stored_secret(s)
WithdrawSecrets(s) == UserSecrets \cup stored_secret(s)

Deposit ==
    /\ \E in \in inputs.deposits :
          LET amount == in[1]
              owner_secret == in[2]
              r == deposit(P, amount, owner_secret)
          IN  /\ r.p.rnd <= MaxNotes
              /\ commit(r)
              /\ deposited' = deposited
                    + (IF r.out.status = "success" THEN amount ELSE 0)
    /\ UNCHANGED <<withdrawn, spent_ok, respent, threads, inputs>>

CreateTransfer ==
    /\ \E from_commitment \in CommitmentStrings, to_address \in Addresses,
          amount \in inputs.amounts :
       \E owner_secret \in TransferSecrets(from_commitment) :
          LET r == create_transfer(P, from_commitment, to_address, amount, owner_secret)
          IN  /\ r.p.rnd <= MaxNotes
              /\ commit(r)
              /\ record_spend(r)
    /\ UNCHANGED <<deposited, withdrawn, threads, inputs>>

Withdraw ==
    /\ \E commitment \in CommitmentStrings, recipient_address \in Addresses :
       \E owner_secret \in WithdrawSecrets(commitment) :
          LET r == withdraw(P, commitment, owner_secret, recipient_address)
          IN  /\ commit(r)
              /\ record_spend(r)
              /\ withdrawn' = withdrawn
                    + (IF r.out.status = "success" THEN r.out.amount ELSE 0)
    /\ UNCHANGED <<deposited, threads, inputs>>

Next == Deposit \/ CreateTransfer \/ Withdraw

Spec == Init /\ [][Next]_vars

(***************************************************************************)
(* The same machine with the reading operations: get_balance,              *)
(* verify_integrity and export_state return a value and assign nothing.    *)
(***************************************************************************)
returned(op, value) ==
    [op |-> op, status |-> "success", error |-> "none", value |-> value]

GetBalance ==
    /\ \E secret \in UserSecrets :
          result' = returned("get_balance", get_balance(P, secret))
    /\ UNCHANGED <<notes, nullifiers, merkle_tree, rnd, deposited, withdrawn,
                   spent_ok, respent, threads, inputs>>

VerifyIntegrity ==
    /\ result' = IF verify_integrity(P).error = "none"
                 THEN returned("verify_integrity", verify_integrity(P).valid)
                 ELSE raise(P, "verify_integrity", verify_integrity(P).error,
                            "invalid literal for int() with base 16").out
    /\ UNCHANGED <<notes, nullifiers, merkle_tree, rnd, deposited, withdrawn,
                   spent_ok, respent, threads, inputs>>

ExportState ==
    /\ result' = returned("export_state", export_state(P).merkle_root)
    /\ UNCHANGED <<notes, nullifiers, merkle_tree, rnd, deposited, withdrawn,
                   spent_ok, respent, threads, inputs>>

\* the callers deposit 0 or 100 under secret 1 and transfer 40 or 300
InitOps ==
    Constructed /\ inputs = [deposits |-> {<<0, 1>>, <<100, 1>>}, amounts |-> {40, 300}]

NextOps ==
    \/ Deposit \/ CreateTransfer \/ Withdraw
    \/ GetBalance \/ VerifyIntegrity \/ ExportState

SpecOps == InitOps /\ [][NextOps]_vars

(***************************************************************************)
(* ConfidentialNote.create on its own: the two salts are what              *)
(* secrets.randbits happens to return, any value of the range.             *)
(***************************************************************************)
MaxSalt == 3
NoteValues == {40, 60, 100}
NoteSecrets == {0, 1, RecipientSecretBase}
Salts == 0 .. MaxSalt

CreateNote ==
    /\ \E value \in NoteValues, secret \in NoteSecrets,
          salt \in Salts, nullifier_salt \in Salts :
          LET sec == IF secret = 0 THEN randbits_secret(0) ELSE secret
          IN  result' = [op |-> "create", status |-> "success", error |-> "none",
                         note |-> ConfidentialNote(value, sec, salt, nullifier_salt)]
    /\ UNCHANGED <<notes, nullifiers, merkle_tree, rnd, deposited, withdrawn,
                   spent_ok, respent, threads, inputs>>

InitNotes == Constructed /\ inputs = [deposits |-> {}, amounts |-> {}]

NextNotes == CreateNote

SpecNotes == InitNotes /\ [][NextNotes]_vars

(***************************************************************************)
(* Two callers on one pool.  The pool takes no lock, so a caller can be    *)
(* preempted between any two statements of create_transfer and withdraw:   *)
(* each thread runs one call, one statement group per step, on the shared  *)
(* notes, nullifiers and merkle_tree.  Deposits are made before the        *)
(* threads start.                                                          *)
(***************************************************************************)
MaxSetupNotes == 2

ghosts == <<result, deposited, withdrawn, spent_ok, respent, inputs>>

at(t, label) == threads[t].pc = label
goto(t, label) == threads' = [threads EXCEPT ![t].pc = label]
finish(t, status, error) ==
    threads' = [threads EXCEPT ![t].pc = "done", ![t].status = status,
                               ![t].error = error]

SetupDeposit ==
    /\ \A t \in Threads : at(t, "idle")
    /\ merkle_tree.next_index < MaxSetupNotes
    /\ Deposit

\* the call is made: from_commitment.lower().replace('0x', ''), note_key
Start(t) ==
    /\ at(t, "idle")
    /\ merkle_tree.next_index > 0
    /\ \E op \in {"transfer", "withdraw"}, c \in ReceiptStrings,
          a \in Addresses, amount \in inputs.amounts :
       \E s \in stored_secret(c) :
          threads' = [threads EXCEPT ![t] =
                        [pc |-> IF op = "transfer" THEN "t_lookup" ELSE "w_lookup",
                         op |-> op, key |-> normalize(c), to_address |-> a,
                         amount |-> amount, owner_secret |-> s,
                         status |-> "running", error |-> "none"]]
    /\ UNCHANGED <<notes, nullifiers, merkle_tree, rnd, ghosts>>

\* if note_key not in self.notes: raise ...; note = self.notes[note_key]
Lookup(t) ==
    /\ at(t, "t_lookup") \/ at(t, "w_lookup")
    /\ IF ~has_key(notes, threads[t].key)
       THEN finish(t, "error", "NoteNotFoundError")
       ELSE threads' = [threads EXCEPT
                          ![t] = [note |-> dict_get(notes, threads[t].key)] @@
                                 [threads[t] EXCEPT
                                    !.pc = IF at(t, "t_lookup") THEN "t_balance"
                                           ELSE "w_spent"]]
    /\ UNCHANGED <<notes, nullifiers, merkle_tree, rnd, ghosts>>

\* if note.value < amount: raise InsufficientBalanceError
TBalance(t) ==
    /\ at(t, "t_balance")
    /\ IF insufficient(threads[t].note, threads[t].amount)
       THEN finish(t, "error", "InsufficientBalanceError")
       ELSE goto(t, "t_spent")
    /\ UNCHANGED <<notes, nullifiers, merkle_tree, rnd, ghosts>>

\* if note.nullifier in self.nullifiers: raise NoteAlreadySpentError
CheckSpent(t) ==
    /\ at(t, "t_spent") \/ at(t, "w_spent")
    /\ IF is_spent(P, threads[t].note)
       THEN finish(t, "error", "NoteAlreadySpentError")
       ELSE goto(t, IF at(t, "t_spent") THEN "t_proof" ELSE "w_secret")
    /\ UNCHANGED <<notes, nullifiers, merkle_tree, rnd, ghosts>>

\* if note.secret != owner_secret: raise InvalidSecretError
WSecret(t) ==
    /\ at(t, "w_secret")
    /\ IF ~secret_matches(threads[t].note, threads[t].owner_secret)
       THEN finish(t, "error", "InvalidSecretError")
       ELSE goto(t, "w_proof")
    /\ UNCHANGED <<notes, nullifiers, merkle_tree, rnd, ghosts>>

\* index = self.merkle_tree.leaves.index(...); proof = get_proof(index)
Proof(t) ==
    /\ at(t, "t_proof") \/ at(t, "w_proof")
    /\ LET index == leaves_index(merkle_tree, threads[t].note.commitment)
           proof == get_proof(merkle_tree, index)
       IN  IF index < 0 \/ proof.error # "none"
           THEN finish(t, "error", "ShieldedPoolError")
           ELSE goto(t, IF at(t, "t_proof") THEN "t_publish" ELSE "w_publish")
    /\ UNCHANGED <<notes, nullifiers, merkle_tree, rnd, ghosts>>

\* self.nullifiers.add(note.nullifier)
Publish(t) ==
    /\ at(t, "t_publish") \/ at(t, "w_publish")
    /\ nullifiers' = set_add(nullifiers, threads[t].note.nullifier)
    /\ goto(t, IF at(t, "t_publish") THEN "t_change" ELSE "w_remove")
    /\ UNCHANGED <<notes, merkle_tree, rnd, ghosts>>

\* del self.notes[note_key]: KeyError when the other caller removed it
WRemove(t) ==
    /\ at(t, "w_remove")
    /\ IF ~has_key(notes, threads[t].key)
       THEN /\ finish(t, "error", "ShieldedPoolError")
            /\ UNCHANGED <<notes, spent_ok, respent, withdrawn>>
       ELSE /\ notes' = dict_del(notes, threads[t].key)
            /\ finish(t, "success", "none")
            /\ spent_ok' = spent_ok \cup {threads[t].note.commitment}
            /\ respent' = respent \cup ({threads[t].note.commitment} \cap spent_ok)
            /\ withdrawn' = withdrawn + threads[t].note.value
    /\ UNCHANGED <<nullifiers, merkle_tree, rnd, result, deposited, inputs>>

\* the change note: create, insert, store
TChange(t) ==
    /\ at(t, "t_change")
    /\ LET change_amount == change_amount_of(threads[t].note, threads[t].amount)
           change_note == create(change_amount, threads[t].owner_secret, rnd)
           ins == insert(merkle_tree, change_note.commitment)
       IN  IF change_amount > 0
           THEN /\ rnd' = rnd + 1
                /\ IF ~ins.ok
                   THEN /\ finish(t, "error", "ShieldedPoolError")
                        /\ UNCHANGED <<notes, merkle_tree>>
                   ELSE /\ merkle_tree' = ins.mt
                        /\ notes' = dict_set(notes, hex(change_note.commitment),
                                             change_note)
                        /\ goto(t, "t_recipient")
           ELSE /\ goto(t, "t_recipient")
                /\ UNCHANGED <<notes, merkle_tree, rnd>>
    /\ UNCHANGED <<nullifiers, ghosts>>

\* the recipient note: create, insert, store, return
TRecipient(t) ==
    /\ at(t, "t_recipient")
    /\ LET new_note == create(threads[t].amount,
                              recipient_secret(threads[t].to_address), rnd)
           ins == insert(merkle_tree, new_note.commitment)
       IN  /\ rnd' = rnd + 1
           /\ IF ~ins.ok
              THEN /\ finish(t, "error", "ShieldedPoolError")
                   /\ UNCHANGED <<notes, merkle_tree, spent_ok, respent>>
              ELSE /\ merkle_tree' = ins.mt
                   /\ notes' = dict_set(notes, hex(new_note.commitment), new_note)
                   /\ finish(t, "success", "none")
                   /\ spent_ok' = spent_ok \cup {threads[t].note.commitment}
                   /\ respent' = respent \cup ({threads[t].note.commitment} \cap spent_ok)
    /\ UNCHANGED <<nullifiers, result, deposited, withdrawn, inputs>>

NextConc ==
    \/ SetupDeposit
    \/ \E t \in Threads :
          \/ Start(t) \/ Lookup(t) \/ TBalance(t) \/ CheckSpent(t) \/ WSecret(t)
          \/ Proof(t) \/ Publish(t) \/ WRemove(t) \/ TChange(t) \/ TRecipient(t)

SpecConc == Init /\ [][NextConc]_vars

(***************************************************************************)
(* Two callers depositing into one pool.  NoteMerkleTree.insert takes no   *)
(* lock either: a caller can be preempted between its statements, and      *)
(* between the read and the write of "self.next_index += 1".               *)
(***************************************************************************)
\* deposit is called: the amount check and ConfidentialNote.create
DStart(t) ==
    /\ at(t, "idle")
    /\ \E in \in inputs.deposits :
          LET amount == in[1]
              call == [pc |-> "i_check", op |-> "deposit",
                       note |-> create(amount, in[2], rnd), index |-> -1,
                       loaded |-> -1, status |-> "running", error |-> "none"]
          IN  IF amount <= 0
              THEN /\ threads' = [threads EXCEPT ![t] =
                                    [call EXCEPT !.pc = "done", !.status = "error",
                                                 !.error = "ValueError"]]
                   /\ rnd' = rnd
              ELSE /\ threads' = [threads EXCEPT ![t] = call]
                   /\ rnd' = rnd + 1
    /\ UNCHANGED <<notes, nullifiers, merkle_tree, ghosts>>

\* if self.next_index >= len(self.leaves): raise ...; index = self.next_index
ICheck(t) ==
    /\ at(t, "i_check")
    /\ IF merkle_tree.next_index >= Pow2(merkle_tree.depth)
       THEN finish(t, "error", "ValueError")
       ELSE threads' = [threads EXCEPT ![t].pc = "i_leaf",
                                       ![t].index = merkle_tree.next_index]
    /\ UNCHANGED <<notes, nullifiers, merkle_tree, rnd, ghosts>>

\* self.leaves[index] = commitment; self._tree[pos] = commitment; parents
ILeaf(t) ==
    /\ at(t, "i_leaf")
    /\ LET written == insert([merkle_tree EXCEPT !.next_index = threads[t].index],
                             threads[t].note.commitment).mt
       IN  merkle_tree' = [merkle_tree EXCEPT !.leaves = written.leaves,
                                              !.tree = written.tree]
    /\ goto(t, "i_load")
    /\ UNCHANGED <<notes, nullifiers, rnd, ghosts>>

\* self.next_index += 1, the read
ILoad(t) ==
    /\ at(t, "i_load")
    /\ threads' = [threads EXCEPT ![t].pc = "i_store",
                                  ![t].loaded = merkle_tree.next_index]
    /\ UNCHANGED <<notes, nullifiers, merkle_tree, rnd, ghosts>>

\* self.next_index += 1, the write; return index
IStore(t) ==
    /\ at(t, "i_store")
    /\ merkle_tree' = [merkle_tree EXCEPT !.next_index = advance(threads[t].loaded)]
    /\ goto(t, "d_store")
    /\ UNCHANGED <<notes, nullifiers, rnd, ghosts>>

\* self.notes[hex(note.commitment)] = note; return
DStore(t) ==
    /\ at(t, "d_store")
    /\ notes' = dict_set(notes, hex(threads[t].note.commitment), threads[t].note)
    /\ finish(t, "success", "none")
    /\ UNCHANGED <<nullifiers, merkle_tree, rnd, ghosts>>

NextIns ==
    \/ SetupDeposit
    \/ \E t \in Threads :
          DStart(t) \/ ICheck(t) \/ ILeaf(t) \/ ILoad(t) \/ IStore(t) \/ DStore(t)

SpecIns == Init /\ [][NextIns]_vars

(***************************************************************************)
(* The standalone MerkleTree of merkle_tree.py.  leaves and the levels of  *)
(* tree are Python dicts, here functions whose domain is the set of keys;  *)
(* PedersenHasher.hash is a free constructor like sha256_pair.  In         *)
(* SpecTree the variable merkle_tree holds this tree.                      *)
(***************************************************************************)
tree_height == 2
TreeLeaves == {<<"leaf", 1>>, <<"leaf", 2>>, <<"leaf", 3>>}

\* PedersenHasher.hash(a, b)
PedersenHash(a, b) == <<"p", a, b>>

\* d.get(k, 0)
get_or_zero(d, k) == IF k \in DOMAIN d THEN d[k] ELSE Zero
\* d[k] = v
put(d, k, v) == [x \in DOMAIN d \cup {k} |-> IF x = k THEN v ELSE d[x]]
\* i ^ 1
xor1(i) == IF i % 2 = 0 THEN i + 1 ELSE i - 1

\* MerkleTree.__init__ and _build_empty_tree
MerkleTree(height) ==
    [height |-> height, leaves |-> <<>>, next_index |-> 0,
     tree |-> [level \in 0 .. height |-> <<>>]]

\* the "Build up to root" loop of MerkleTree.insert, from level on
RECURSIVE build_up(_, _, _, _, _)
build_up(tree, height, level, current, current_index) ==
    IF level > height THEN [tree |-> tree, path |-> <<>>]
    ELSE LET sibling == get_or_zero(tree[level - 1], xor1(current_index))
             parent == IF current_index % 2 = 0
                       THEN PedersenHash(current, sibling)
                       ELSE PedersenHash(sibling, current)
             t2 == [tree EXCEPT ![level] = put(@, current_index \div 2, parent)]
             rest == build_up(t2, height, level + 1, parent, current_index \div 2)
         IN  [tree |-> rest.tree, path |-> <<parent>> \o rest.path]

\* MerkleTree.insert: there is no capacity check, the call always returns
MerkleTree_insert(mt, commitment) ==
    LET index == mt.next_index
        t0 == [mt.tree EXCEPT ![0] = put(@, index, commitment)]
        built == build_up(t0, mt.height, 1, commitment, index)
    IN  [mt |-> [mt EXCEPT !.next_index = index + 1,
                           !.leaves = put(@, index, commitment),
                           !.tree = built.tree],
         out |-> [op |-> "insert", status |-> "success", error |-> "none",
                  index |-> index, path |-> <<commitment>> \o built.path]]

\* MerkleTree.get_root: self.tree[self.height].get(0, 0)
MerkleTree_get_root(mt) == get_or_zero(mt.tree[mt.height], 0)

\* MerkleTree.get_proof: the sibling is read from self.leaves at every level
RECURSIVE proof_from(_, _, _)
proof_from(mt, index, level) ==
    IF level >= mt.height THEN <<>>
    ELSE <<[sibling |-> get_or_zero(mt.leaves, xor1(index)),
            is_left |-> index % 2 = 0]>>
         \o proof_from(mt, index \div 2, level + 1)

MerkleTree_get_proof(mt, index) == proof_from(mt, index, 0)

RECURSIVE fold_proof(_, _)
fold_proof(current, proof) ==
    IF proof = <<>> THEN current
    ELSE fold_proof(IF Head(proof).is_left
                    THEN PedersenHash(current, Head(proof).sibling)
                    ELSE PedersenHash(Head(proof).sibling, current),
                    Tail(proof))

\* verify_merkle_proof(leaf, proof, root)
verify_merkle_proof(leaf, proof, root) == fold_proof(leaf, proof) = root

\* a caller inserts one more commitment, up to one past the capacity
TreeInsert ==
    /\ merkle_tree.next_index <= Pow2(tree_height)
    /\ \E commitment \in TreeLeaves :
          LET r == MerkleTree_insert(merkle_tree, commitment)
          IN  /\ merkle_tree' = r.mt
              /\ result' = r.out
    /\ UNCHANGED <<notes, nullifiers, rnd, deposited, withdrawn, spent_ok,
                   respent, threads, inputs>>

\* a MerkleTree just constructed; no pool is involved
InitTree ==
    /\ merkle_tree = MerkleTree(tree_height)
    /\ result = [op |-> "init", status |-> "success", error |-> "none"]
    /\ notes = <<>> /\ nullifiers = {} /\ rnd = 0
    /\ deposited = 0 /\ withdrawn = 0 /\ spent_ok = {} /\ respent = {}
    /\ threads = [t \in Threads |-> idle]
    /\ inputs = [deposits |-> {}, amounts |-> {}]

NextTree == TreeInsert

SpecTree == InitTree /\ [][NextTree]_vars

(***************************************************************************)
(* Properties                                                              *)
(***************************************************************************)
stored(k) == has_key(notes, k)
published(k) == dict_get(notes, k).nullifier \in nullifiers

\* C1: once a withdraw or a create_transfer has succeeded in spending a
\* note, every later withdraw or create_transfer naming that note fails with
\* NoteAlreadySpentError, whatever amount or secret is passed.
C1_SpentThenAlreadySpentError ==
    \A c \in spent_ok : \A a \in Addresses :
       /\ \A amount \in inputs.amounts, s \in TransferSecrets(hex(c)) :
             create_transfer(P, hex(c), a, amount, s).out.error = "NoteAlreadySpentError"
       /\ \A s \in WithdrawSecrets(hex(c)) :
             withdraw(P, hex(c), s, a).out.error = "NoteAlreadySpentError"

\* C2: no note is consumed by more than one successful create_transfer or
\* withdraw call.
C2_SpentAtMostOnce == respent = {}

\* a spent note is still in the notes map and a further spend of a
\* published nullifier has just been refused
C2_Witness ==
    /\ result.op \in {"transfer", "withdraw"}
    /\ result.error = "NoteAlreadySpentError"
    /\ \E i \in 1 .. Len(notes) :
          /\ notes[i].note.commitment \in spent_ok
          /\ notes[i].note.nullifier \in nullifiers

RECURSIVE sum_balances(_)
sum_balances(S) ==
    IF S = {} THEN 0
    ELSE LET s == CHOOSE x \in S : TRUE
         IN  get_balance(P, s) + sum_balances(S \ {s})

StoredSecrets == {notes[i].note.secret : i \in 1 .. Len(notes)}

\* C3: the balances of all secrets plus the withdrawn amounts equal the
\* deposited amounts.
C3_BalanceConservation ==
    sum_balances(StoredSecrets) + withdrawn = deposited

RECURSIVE sum_unspent(_, _)
sum_unspent(d, secret) ==
    IF d = <<>> THEN 0
    ELSE (IF Head(d).note.secret = secret /\ Head(d).note.nullifier \notin nullifiers
          THEN Head(d).note.value ELSE 0)
         + sum_unspent(Tail(d), secret)

\* C4: get_balance(s) is the sum of the values of the stored notes with
\* secret s whose nullifier is not published (260 after deposits of 100 and
\* 200 and a transfer of 40 out of the first).
C4_BalanceSumsUnspent ==
    \A s \in StoredSecrets \cup UserSecrets :
       get_balance(P, s) = sum_unspent(notes, s)

\* C5: a call that raises leaves notes, nullifiers and the tree as they were.
C5_FailedCallChangesNothing ==
    [][result'.status = "error" => pool' = pool]_vars

\* C6: of two concurrent spending calls on the same note at most one
\* succeeds.
C6_AtMostOneConcurrentSpend ==
    \A t1, t2 \in Threads :
       (t1 # t2 /\ at(t1, "done") /\ at(t2, "done")
          /\ threads[t1].key = threads[t2].key)
       => ~(threads[t1].status = "success" /\ threads[t2].status = "success")

\* C7: a successful create_transfer creates notes worth exactly the consumed
\* note, appends them to the notes it found and changes no other note.
C7_TransferConservesValue ==
    [][(result'.op = "transfer" /\ result'.status = "success") =>
         LET n == Len(notes)
             made == IF result'.has_change
                     THEN <<result'.change_note, result'.to_note>>
                     ELSE <<result'.to_note>>
         IN  /\ \E i \in 1 .. n : notes[i].note = result'.from_note
             /\ result'.from_note.value
                  = result'.to_note.value
                    + (IF result'.has_change THEN result'.change_note.value ELSE 0)
             /\ Len(notes') = n + Len(made)
             /\ \A i \in 1 .. n : notes'[i] = notes[i]
             /\ \A j \in 1 .. Len(made) : notes'[n + j].note = made[j]
      ]_vars

C7_Witness ==
    /\ result.op = "transfer" /\ result.status = "success"
    /\ result.has_change
    /\ result.to_note.value = 40 /\ result.change_note.value = 60

\* C8: create_transfer reports not-found first, then already-spent, then
\* insufficient balance.
C8_TransferErrorOrder ==
    \A c \in CommitmentStrings, a \in Addresses, amount \in inputs.amounts :
    \A s \in TransferSecrets(c) :
       LET out == create_transfer(P, c, a, amount, s).out
           k == normalize(c)
       IN  /\ ~stored(k) => out.error = "NoteNotFoundError"
           /\ (stored(k) /\ published(k)) => out.error = "NoteAlreadySpentError"
           /\ out.error = "InsufficientBalanceError" =>
                 /\ stored(k) /\ ~published(k)
                 /\ dict_get(notes, k).value < amount

\* C9: withdraw of a stored, unspent note with another secret than the
\* stored one fails with InvalidSecretError and changes nothing; withdraw
\* succeeds only with the stored secret.
C9_WithdrawChecksSecret ==
    \A c \in CommitmentStrings, a \in Addresses :
    \A s \in WithdrawSecrets(c) :
       LET r == withdraw(P, c, s, a)
           k == normalize(c)
       IN  /\ (stored(k) /\ ~published(k) /\ dict_get(notes, k).secret # s) =>
                 (r.out.error = "InvalidSecretError" /\ r.p = P)
           /\ r.out.status = "success" =>
                 (stored(k) /\ dict_get(notes, k).secret = s)

\* a withdraw with a wrong secret has just been refused, the note is kept
C9_Witness ==
    /\ result.op = "withdraw" /\ result.error = "InvalidSecretError"
    /\ Len(notes) > 0 /\ nullifiers = {}

\* C10: the proof of the leaf inserted last verifies against the current
\* root, and so does the merkle_proof of a successful spend.
C10_MerkleRoundTrip ==
    /\ merkle_tree.next_index > 0 =>
          LET i == merkle_tree.next_index - 1
              proof == get_proof(merkle_tree, i)
          IN  proof.error = "none" /\ verify_proof(merkle_tree.leaves[i], proof)
    /\ (result.op \in {"transfer", "withdraw"} /\ result.status = "success") =>
          verify_proof(result.from_note.commitment, result.merkle_proof)

\* the (amount, owner_secret) pairs with a positive amount a caller deposits
PositiveDeposits == {in \in inputs.deposits \cup {<<100, 1>>} : in[1] > 0}
tree_full == merkle_tree.next_index = Pow2(merkle_tree.depth)

\* C11: the first 2^depth insertions succeed and the next one fails; a
\* deposit of a positive amount into a pool whose tree is full fails with an
\* error kind of its own, different from the kind a non-positive amount
\* gives, and leaves notes, nullifiers and the tree as they were.
C11_TreeFullDeposit ==
    /\ merkle_tree.next_index <= Pow2(merkle_tree.depth)
    /\ insert(merkle_tree, UnknownCommitment).ok = ~tree_full
    /\ tree_full =>
          \A in \in PositiveDeposits :
             LET r == deposit(P, in[1], in[2])
                 bad == deposit(P, 0, in[2])
             IN  /\ r.out.status = "error"
                 /\ bad.out.status = "error"
                 /\ r.out.error # bad.out.error
                 /\ r.p.notes = notes
                 /\ r.p.nullifiers = nullifiers
                 /\ r.p.merkle_tree = merkle_tree

\* the pool import_state builds from what export_state wrote
restored == import_state(export_state(P), rnd)

\* C12: the pool restored from the exported state gives the same balance for
\* every secret, holds the same nullifiers and has the same Merkle root as
\* the pool that was exported, also after withdrawals.
C12_ExportImportRoundTrip ==
    /\ restored.ok
    /\ \A s \in StoredSecrets \cup UserSecrets :
          get_balance(restored.p, s) = get_balance(P, s)
    /\ restored.p.nullifiers = nullifiers
    /\ get_root(restored.p.merkle_tree) = get_root(merkle_tree)

\* what a successful deposit(amount, owner_secret) giving r does to the pool
deposit_effect(r, amount, owner_secret) ==
    LET n == Len(notes)
        index == merkle_tree.next_index
    IN  /\ Len(r.p.notes) = n + 1
        /\ \A i \in 1 .. n : r.p.notes[i] = notes[i]
        /\ r.p.notes[n + 1].note.value = amount
        /\ r.p.notes[n + 1].note.secret = owner_secret
        /\ r.p.merkle_tree.next_index = index + 1
        /\ r.out.merkle_index = index
        /\ r.p.merkle_tree.leaves =
              [merkle_tree.leaves EXCEPT ![index] = r.p.notes[n + 1].note.commitment]
        /\ r.p.nullifiers = nullifiers
        /\ r.out.nullifier \notin nullifiers
        /\ get_balance(r.p, owner_secret) = get_balance(P, owner_secret) + amount

\* C13: a successful deposit(v, s), for every v > 0 and every secret s, s = 0
\* included, adds exactly one note, of value v and secret s, appends exactly
\* one leaf at the previous next_index, which it returns, leaves the
\* nullifier set unchanged, and raises get_balance(s) by exactly v.
C13_DepositEffect ==
    \A in \in PositiveDeposits :
       LET r == deposit(P, in[1], in[2])
       IN  r.out.status = "success" => deposit_effect(r, in[1], in[2])

\* C14: a successful withdraw consumes exactly one note: it adds exactly that
\* note's nullifier to the nullifier set, removes exactly that note from the
\* notes map, returns the note's full value, inserts no leaf and changes no
\* other note.
C14_WithdrawConsumesOneNote ==
    [][(result'.op = "withdraw" /\ result'.status = "success") =>
         LET note == result'.from_note
         IN  /\ \E i \in 1 .. Len(notes) :
                   /\ notes[i].note = note
                   /\ notes' = [j \in 1 .. Len(notes) - 1 |->
                                  IF j < i THEN notes[j] ELSE notes[j + 1]]
             /\ note.nullifier \notin nullifiers
             /\ nullifiers' = nullifiers \cup {note.nullifier}
             /\ result'.amount = note.value
             /\ merkle_tree' = merkle_tree
      ]_vars

\* a withdraw has just succeeded and other notes are still stored
C14_Witness ==
    /\ result.op = "withdraw" /\ result.status = "success"
    /\ result.nullifier_published \in nullifiers
    /\ Len(notes) >= 2
    /\ \A i \in 1 .. Len(notes) : notes[i].note # result.from_note

\* C15: the nullifier set is append-only: whatever operation runs (deposit,
\* create_transfer, withdraw, get_balance, verify_integrity, export_state),
\* successful or failing, every nullifier in the set stays in the set.
C15_NullifiersAppendOnly ==
    [][nullifiers \subseteq nullifiers']_vars

\* two nullifiers are published and a reading operation has just run
C15_Witness ==
    /\ Cardinality(nullifiers) >= 2
    /\ result.op \in {"get_balance", "verify_integrity", "export_state"}

\* the leaves written so far are the same in tree t2 as in the pool's tree
leaves_kept(t2) ==
    \A i \in 0 .. merkle_tree.next_index - 1 : t2.leaves[i] = merkle_tree.leaves[i]

\* an insert into the pool's tree: a successful one returns the old
\* next_index, writes that leaf and advances by one, a failed one changes
\* nothing
insert_appends ==
    LET ins == insert(merkle_tree, UnknownCommitment)
    IN  IF ins.ok
        THEN /\ ins.index = merkle_tree.next_index
             /\ ins.mt.next_index = merkle_tree.next_index + 1
             /\ ins.mt.leaves[ins.index] = UnknownCommitment
             /\ leaves_kept(ins.mt)
        ELSE ins.mt = merkle_tree

\* the inserts made by the call that has just returned result'
inserts_made ==
    IF result'.status = "error" THEN {0, 1}
    ELSE IF result'.op = "deposit" THEN {1}
    ELSE IF result'.op = "transfer" THEN (IF result'.has_change THEN {2} ELSE {1})
    ELSE {0}

\* C16: the pool's tree is append-only: next_index never decreases, grows by
\* one with every successful insert and not at all with a failed one, the
\* index returned is the next_index before the insert, and a leaf below
\* next_index never changes, whatever operations run.
C16_TreeAppendOnly ==
    /\ []insert_appends
    /\ [][/\ merkle_tree'.next_index - merkle_tree.next_index \in inserts_made
          /\ leaves_kept(merkle_tree')
          /\ (result'.op = "deposit" /\ result'.status = "success") =>
                 result'.merkle_index = merkle_tree.next_index
          /\ (result'.op = "transfer" /\ result'.status = "success") =>
                 result'.to_index = merkle_tree'.next_index - 1
          /\ (result'.op = "deposit" /\ result'.status = "error") =>
                 merkle_tree' = merkle_tree
         ]_vars

\* the tree is full, its first leaf is still the first commitment made, and
\* a deposit has just been refused
C16_Witness ==
    /\ tree_full
    /\ merkle_tree.leaves[0] = compute_commitment(100, 1, 0)
    /\ result.op = "deposit" /\ result.status = "error"

\* C17: the root depends on every inserted leaf: a successful insert, at
\* whatever index of the tree, gives a root different from the root before
\* it (the hash being collision-free).
C17_RootChangesOnInsert ==
    LET ins == insert(merkle_tree, UnknownCommitment)
    IN  ins.ok => get_root(ins.mt) # get_root(merkle_tree)

\* the exported document with the value of its i-th note changed and the
\* note's commitment kept
tamper_value(state, i) ==
    [state EXCEPT !.notes[i].note.value = @ + 1]

\* some stored note's commitment field is not the commitment of its own
\* (value, secret, salt)
has_forged_note(p) ==
    \E j \in 1 .. Len(p.notes) :
       p.notes[j].note.commitment
          # compute_commitment(p.notes[j].note.value, p.notes[j].note.secret,
                               p.notes[j].note.salt)

\* C18: verify_integrity reports valid = false, with an issue, for every pool
\* holding a note whose commitment field is not the commitment recomputed
\* from the note's (value, secret, salt), such as a pool imported from a
\* document in which a note's value was changed and its commitment kept.
C18_IntegrityDetectsForgedNote ==
    /\ has_forged_note(P) =>
          (~verify_integrity(P).valid /\ verify_integrity(P).issues # <<>>)
    /\ \A i \in 1 .. Len(notes) :
          LET q == import_state(tamper_value(export_state(P), i), rnd)
          IN  (q.ok /\ has_forged_note(q.p)) =>
                 (~verify_integrity(q.p).valid /\ verify_integrity(q.p).issues # <<>>)

\* C19: every note stored in the pool has a value > 0, and a create_transfer
\* with an amount <= 0 stores no note.
C19_StoredValuesPositive ==
    /\ \A i \in 1 .. Len(notes) : notes[i].note.value > 0
    /\ \A c \in CommitmentStrings, a \in Addresses,
          amount \in {x \in inputs.amounts : x <= 0} :
       \A s \in TransferSecrets(c) :
          create_transfer(P, c, a, amount, s).p.notes = notes

\* C20: notes never expire: in every reachable state, withdraw of a stored
\* note whose nullifier is not published, called with the note's commitment
\* and its stored secret, succeeds for any recipient, also when the tree is
\* full.
C20_UnspentNoteWithdrawable ==
    \A i \in 1 .. Len(notes) : \A a \in Addresses :
       LET note == notes[i].note
       IN  note.nullifier \notin nullifiers =>
              withdraw(P, hex(note.commitment), note.secret, a).out.status = "success"

\* no create_transfer, successful or not, puts a leaf in the tree without
\* the nullifier of the note it names being in the nullifier set
leaf_only_after_nullifier ==
    \A c \in CommitmentStrings, a \in Addresses, amount \in inputs.amounts :
    \A s \in TransferSecrets(c) :
       LET r == create_transfer(P, c, a, amount, s)
       IN  r.p.merkle_tree # merkle_tree =>
              dict_get(notes, normalize(c)).nullifier \in r.p.nullifiers

\* C21: a successful create_transfer publishes the spent note's nullifier
\* before it inserts a leaf; if the note's value exceeds the amount the change
\* note (value - amount) goes to the old next_index and the recipient note
\* (amount) to the old next_index + 1; if the value equals the amount no
\* change note is made and the recipient note goes to the old next_index.
C21_TransferOrder ==
    /\ []leaf_only_after_nullifier
    /\ [][(result'.op = "transfer" /\ result'.status = "success") =>
            LET note == result'.from_note
                amount == result'.amount_transferred
                old == merkle_tree.next_index
            IN  /\ note.nullifier \in nullifiers'
                /\ result'.to_note.value = amount
                /\ IF note.value > amount
                   THEN /\ result'.has_change
                        /\ result'.change_note.value = note.value - amount
                        /\ merkle_tree'.leaves[old] = result'.change_note.commitment
                        /\ merkle_tree'.leaves[old + 1] = result'.to_note.commitment
                        /\ result'.to_index = old + 1
                        /\ merkle_tree'.next_index = old + 2
                   ELSE /\ note.value = amount
                        /\ ~result'.has_change
                        /\ merkle_tree'.leaves[old] = result'.to_note.commitment
                        /\ result'.to_index = old
                        /\ merkle_tree'.next_index = old + 1
         ]_vars

\* a whole note has just been transferred, without change
C21_Witness ==
    /\ result.op = "transfer" /\ result.status = "success"
    /\ ~result.has_change
    /\ result.to_note.value = result.from_note.value
    /\ result.from_note.value > 0
    /\ merkle_tree.leaves[result.to_index] = result.to_note.commitment

\* C22: commitment and nullifier are functions of (value, secret, salt)
\* only: two notes created one after the other with equal value, secret and
\* salt have equal commitment and equal nullifier.
C22_NoteHashesDeterministic ==
    [][(result.op = "create" /\ result'.op = "create"
          /\ result'.note.value = result.note.value
          /\ result'.note.secret = result.note.secret
          /\ result'.note.salt = result.note.salt) =>
            /\ result'.note.commitment = result.note.commitment
            /\ result'.note.nullifier = result.note.nullifier
      ]_vars

\* the exported document with the key of its i-th note replaced by k
rename_key(state, i, k) ==
    [state EXCEPT !.notes[i].key = k]

\* the documents import_state is given: the exported state as written, with
\* a note's value changed, and with a note filed under another key
Documents ==
    {export_state(P)}
    \cup {tamper_value(export_state(P), i) : i \in 1 .. Len(notes)}
    \cup {rename_key(export_state(P), i, k) :
             i \in 1 .. Len(notes), k \in {hex(UnknownCommitment), <<"", NotHex>>}}

\* verify_integrity returns a report for the pool and for every pool
\* import_state builds
integrity_never_raises ==
    /\ verify_integrity(P).error = "none"
    /\ \A doc \in Documents :
          LET q == import_state(doc, rnd)
          IN  q.ok => verify_integrity(q.p).error = "none"

\* C23: get_balance, verify_integrity and export_state never modify the
\* notes map, the nullifier set or the tree, and verify_integrity never
\* raises in a pool reached by deposit, create_transfer, withdraw and
\* import_state.
C23_ReadsArePure ==
    /\ []integrity_never_raises
    /\ [][result'.op \in {"get_balance", "verify_integrity", "export_state"}
            => pool' = pool]_vars

\* C24: when two deposits run with their steps interleaved, the successful
\* inserts get distinct leaf indices, next_index advances by one per insert
\* and no inserted commitment is overwritten or lost.
C24_ConcurrentInsertsDistinct ==
    (\A t \in Threads : at(t, "done")) =>
       /\ \A t1, t2 \in Threads :
             (t1 # t2 /\ threads[t1].status = "success"
                /\ threads[t2].status = "success")
             => threads[t1].index # threads[t2].index
       /\ merkle_tree.next_index = Len(notes)
       /\ \A i \in 1 .. Len(notes) :
             \E j \in 0 .. merkle_tree.next_index - 1 :
                merkle_tree.leaves[j] = notes[i].note.commitment

\* C25: in the standalone MerkleTree, after n >= 1 inserts, the proof of
\* every inserted index i < n verifies for leaves[i] against the current
\* root.
C25_TreeProofsVerify ==
    \A i \in 0 .. merkle_tree.next_index - 1 :
       verify_merkle_proof(merkle_tree.leaves[i],
                           MerkleTree_get_proof(merkle_tree, i),
                           MerkleTree_get_root(merkle_tree))

\* C26: in the standalone MerkleTree of height h an insert is rejected once
\* next_index = 2^h, leaving next_index, leaves and root unchanged.
C26_TreeInsertRejectedWhenFull ==
    /\ merkle_tree.next_index <= Pow2(merkle_tree.height)
    /\ merkle_tree.next_index = Pow2(merkle_tree.height) =>
          \A commitment \in TreeLeaves :
             LET r == MerkleTree_insert(merkle_tree, commitment)
             IN  /\ r.out.status = "error"
                 /\ r.mt.next_index = merkle_tree.next_index
                 /\ r.mt.leaves = merkle_tree.leaves
                 /\ MerkleTree_get_root(r.mt) = MerkleTree_get_root(merkle_tree)

\* C27: only the holder of a note's secret can spend it: create_transfer
\* succeeds only if owner_secret is the stored secret of the note named by
\* from_commitment.
C27_TransferChecksSecret ==
    \A c \in CommitmentStrings, a \in Addresses, amount \in inputs.amounts :
    \A s \in TransferSecrets(c) :
       create_transfer(P, c, a, amount, s).out.status = "success" =>
          (stored(normalize(c)) /\ dict_get(notes, normalize(c)).secret = s)

\* the values of the stored notes whose nullifier is not published
RECURSIVE unspent_value(_)
unspent_value(d) ==
    IF d = <<>> THEN 0
    ELSE (IF Head(d).note.nullifier \notin nullifiers THEN Head(d).note.value ELSE 0)
         + unspent_value(Tail(d))

\* C28: the pool never creates value: the values of the unspent notes plus
\* the amounts withdrawn never exceed the amounts deposited, whatever
\* integer amounts the calls were given and whether they succeeded.
C28_NoValueCreated ==
    unspent_value(notes) + withdrawn <= deposited

\* the call that gave out was refused by one of the checks made on entry
precondition_rejected(out) ==
    /\ out.status = "error"
    /\ \/ out.op = "deposit" /\ out.message = "Amount must be positive"
       \/ out.op = "transfer"
            /\ out.error \in {"NoteNotFoundError", "InsufficientBalanceError",
                              "NoteAlreadySpentError"}
       \/ out.op = "withdraw"
            /\ out.error \in {"NoteNotFoundError", "NoteAlreadySpentError",
                              "InvalidSecretError"}

\* C29: a call rejected by a precondition check (deposit of an amount <= 0,
\* create_transfer failing with not-found, insufficient-balance or
\* already-spent, withdraw failing with not-found, already-spent or
\* invalid-secret) leaves the notes map, the nullifier set, the leaves,
\* next_index and the root unchanged.
C29_RejectedCallChangesNothing ==
    [][precondition_rejected(result') =>
         /\ notes' = notes
         /\ nullifiers' = nullifiers
         /\ merkle_tree'.leaves = merkle_tree.leaves
         /\ merkle_tree'.next_index = merkle_tree.next_index
         /\ get_root(merkle_tree') = get_root(merkle_tree)
      ]_vars

\* a transfer of more than the note holds has just been refused, with notes
\* and a published nullifier in the pool
C29_Witness ==
    /\ result.op = "transfer" /\ result.error = "InsufficientBalanceError"
    /\ Len(notes) >= 2
    /\ nullifiers # {}

\* C30: in every state reached from an empty pool by deposit,
\* create_transfer and withdraw, each key of the notes map is the hex form of
\* its note's commitment, each stored note's commitment is a leaf below
\* next_index, so that the proof create_transfer and withdraw generate for
\* it never fails, and verify_integrity returns valid with no issues.
C30_StructuralInvariant ==
    /\ \A i \in 1 .. Len(notes) :
          LET note == notes[i].note
              index == leaves_index(merkle_tree, note.commitment)
          IN  /\ notes[i].key = hex(note.commitment)
              /\ index >= 0 /\ index < merkle_tree.next_index
              /\ get_proof(merkle_tree, index).error = "none"
    /\ verify_integrity(P).error = "none"
    /\ verify_integrity(P).valid
    /\ verify_integrity(P).issues = <<>>

====
